---- MODULE Spec2Model ----
(***************************************************************************)
(* Product lifecycle, transaction ledger and rating store of the           *)
(* EcoNova2024 marketplace backend.  Each HTTP handler is one action; the  *)
(* database tables are the variables products, transactions and ratings;   *)
(* clock counts the writes to the rating table (time.Now() of a write);     *)
(* req is the request the last handler served, resp the response it sent.  *)
(***************************************************************************)
EXTENDS Integers, Sequences, FiniteSets, TLC

VARIABLES products, transactions, ratings, clock, req, resp, calls

vars == <<products, transactions, ratings, clock, req, resp, calls>>

(***************************************************************************)
(* Bounds of the model.                                                    *)
(***************************************************************************)
MaxTx == 3
MaxClock == 3

Users == {"u1", "u2"}
\* the value of gin's context when JWTAuth did not set "user_id"
NoUser == "anonymous"
\* a path or body parameter that uuid.Parse rejects
BadUUID == 0
\* the identifiers uuid.New() hands to products, in the order it hands them out
ProductIDs == {1, 2}

\* models.TransactionAction is a string: the JSON binding accepts any value.
\* "submited" is the literal the handler compares with, "donated" stands for
\* an unrecognized value.
Actions == {"submitted", "submittedRevitalized", "revitalized", "sold",
            "submited", "donated"}
Prices == {50}
CreatePrices == {10}
\* an optional JSON number is <<>> when the key is absent, <<p>> otherwise

StatusAvailable == "available"
StatusRestored == "restored"
StatusRestoredAvailable == "restoredAvailable"
StatusSold == "sold"
ProductStatus == {StatusAvailable, StatusRestored, StatusRestoredAvailable, StatusSold}

\* a nil *models.Rating
NoRating == [ID |-> 0, UserID |-> "", ProductID |-> 0, Score |-> 0, CreatedAt |-> 0]

\* a nil *models.Transaction
NoTransaction == [ID |-> 0, ItemID |-> 0, UserID |-> "", Description |-> "",
                  Action |-> "", ImageURL |-> 0]

(***************************************************************************)
(* ProductRepository                                                       *)
(***************************************************************************)
\* a nil *models.Product
NoProduct == [ID |-> 0, UserID |-> "", Description |-> "", Price |-> 0,
              Status |-> ""]

\* net/http serves every request in a goroutine of its own: calls holds, for
\* each of the requests that can be in flight together, the statement the
\* handler has reached (pc) and the locals it holds there.  A handler that
\* runs without another one in between is one action and leaves calls alone.
Procs == {"a", "b"}
Idle == [pc |-> "idle", item |-> BadUUID, user |-> NoUser, body |-> <<>>,
         db |-> "ok", product |-> NoProduct, t |-> NoTransaction,
         existingRating |-> NoRating]

\* r.db.First(&product, id): (&product, nil), or (nil, err) with
\* gorm.ErrRecordNotFound when no row has that key, or the store's error
GetByID(id, dbFails) ==
    IF dbFails
    THEN [product |-> NoProduct, err |-> "database error"]
    ELSE IF id \in 1..Len(products)
         THEN [product |-> products[id], err |-> ""]
         ELSE [product |-> NoProduct, err |-> "record not found"]

ProductRepositoryUpdateStatusOnly(product) ==
    [products EXCEPT ![product.ID].Status = product.Status]

\* repo.db.Save(product): writes every column of the row with that key
ProductRepositoryUpdate(product) == [products EXCEPT ![product.ID] = product]

(***************************************************************************)
(* TransactionService.AddTransaction                                       *)
(***************************************************************************)
\* uuid.New()
NewTransactionID == Len(transactions) + 1

\* handleTransactionPutImage: the key "<id>.jpg" when image data came along
PutImageKey(id, hasImage) == IF hasImage THEN id ELSE 0

NewTransactionOfNoItem(r, id) ==
    [ID |-> id,
     ItemID |-> BadUUID,
     UserID |-> r.UserID,
     Description |-> r.Description,
     Action |-> r.Action,
     ImageURL |-> PutImageKey(id, r.ImageData)]

NewTransactionNoDescription(r, id) ==
    [ID |-> id,
     ItemID |-> r.ItemID,
     UserID |-> r.UserID,
     Description |-> "",
     Action |-> r.Action,
     ImageURL |-> PutImageKey(id, r.ImageData)]

NewTransaction(r, id) ==
    [ID |-> id,
     ItemID |-> r.ItemID,
     UserID |-> r.UserID,
     Description |-> r.Description,
     Action |-> r.Action,
     ImageURL |-> PutImageKey(id, r.ImageData)]

(***************************************************************************)
(* TransactionController.AddTransactionToItem                              *)
(***************************************************************************)
\* c.ShouldBindJSON(&transactionReq): a missing price binds to float64's zero
BindPrice(body) == IF body.price = <<>> THEN 0 ELSE body.price[1]

StatusForActionEchoesAction(reqAction, txAction) == txAction

StatusForActionNoRevitalized(reqAction, txAction) ==
    IF txAction = "submited" THEN StatusAvailable ELSE StatusSold

StatusForAction(reqAction, txAction) ==
    IF reqAction = "revitalized"
    THEN StatusRestored
    ELSE IF txAction = "submited"
         THEN StatusAvailable
         ELSE StatusSold

UpdatedProductAddsPrice(product, transaction, body) ==
    [product EXCEPT !.UserID = transaction.UserID,
                    !.Price = product.Price + BindPrice(body),
                    !.Status = StatusForAction(body.action, transaction.Action)]

UpdatedProductSoldIsFinal(product, transaction, body) ==
    [product EXCEPT !.UserID = transaction.UserID,
                    !.Price = BindPrice(body),
                    !.Status = IF product.Status = StatusSold
                               THEN StatusSold
                               ELSE StatusForAction(body.action, transaction.Action)]

UpdatedProductKeepsOwner(product, transaction, body) ==
    [product EXCEPT !.Price = BindPrice(body),
                    !.Status = StatusForAction(body.action, transaction.Action)]

UpdatedProduct(product, transaction, body) ==
    [product EXCEPT !.UserID = transaction.UserID,
                    !.Price = BindPrice(body),
                    !.Status = StatusForAction(body.action, transaction.Action)]

TransactionRequest(itemID, uid, body) ==
    [ItemID |-> itemID, UserID |-> uid, Description |-> body.description,
     Action |-> body.action, ImageData |-> FALSE]

RespondCreated(op, code, t) == [op |-> op, code |-> 201, transaction |-> t]

\* c.JSON(code, ...): the handler that answered, the HTTP status and, on
\* success, the "transaction" of the body
Respond(op, code, t) == [op |-> op, code |-> code, transaction |-> t]

\* db: "ok", or the store call that fails: "get", "create", "update"
AddTransactionToItem(itemID, user, body, db) ==
    /\ req' = [op |-> "AddTransactionToItem", item |-> itemID, user |-> user,
               body |-> body]
    /\ UNCHANGED <<ratings, clock, calls>>
    /\ IF user = NoUser
       THEN /\ resp' = Respond("AddTransactionToItem", 401, NoTransaction)
            /\ UNCHANGED <<products, transactions>>
       ELSE IF itemID = BadUUID
       THEN /\ resp' = Respond("AddTransactionToItem", 400, NoTransaction)
            /\ UNCHANGED <<products, transactions>>
       ELSE LET got == GetByID(itemID, db = "get")
                product == got.product
                transaction == TransactionRequest(itemID, user, body)
                t == NewTransaction(transaction, NewTransactionID)
            IN  IF got.err # ""
                THEN /\ resp' = Respond("AddTransactionToItem", 500, NoTransaction)
                     /\ UNCHANGED <<products, transactions>>
                ELSE IF product = NoProduct
                THEN /\ resp' = Respond("AddTransactionToItem", 404, NoTransaction)
                     /\ UNCHANGED <<products, transactions>>
                ELSE IF db = "create"
                THEN /\ resp' = Respond("AddTransactionToItem", 500, NoTransaction)
                     /\ UNCHANGED <<products, transactions>>
                ELSE /\ transactions' = Append(transactions, t)
                     /\ IF db = "update"
                        THEN /\ resp' = Respond("AddTransactionToItem", 500,
                                                NoTransaction)
                             /\ UNCHANGED products
                        ELSE /\ products' = ProductRepositoryUpdate(
                                     UpdatedProduct(product, transaction, body))
                             /\ resp' = Respond("AddTransactionToItem", 201, t)

(***************************************************************************)
(* ProductService.Create and ProductController.Create                      *)
(***************************************************************************)
\* uuid.New()
NewProductID == Len(products) + 1

NewProductOfNobody(body, userID, id) ==
    [ID |-> id,
     UserID |-> NoUser,
     Description |-> body.description,
     Price |-> body.price,
     Status |-> StatusAvailable]

NewProduct(body, userID, id) ==
    [ID |-> id,
     UserID |-> userID,
     Description |-> body.description,
     Price |-> body.price,
     Status |-> StatusAvailable]

\* db: "ok", or the call that fails: "create" (product insert), "transaction"
\* (AddTransaction, whose error is dropped before *transactionCreated is read),
\* "user" (GetDemographicInformation, whose error is dropped before *user is read)
ProductControllerCreate(user, body, db) ==
    /\ NewProductID \in ProductIDs
    /\ Len(transactions) < MaxTx
    /\ req' = [op |-> "Create", item |-> BadUUID, user |-> user, body |-> body]
    /\ UNCHANGED <<ratings, clock, calls>>
    /\ IF user = NoUser
       THEN /\ resp' = Respond("Create", 401, NoTransaction)
            /\ UNCHANGED <<products, transactions>>
       ELSE IF db = "create"
       THEN /\ resp' = Respond("Create", 500, NoTransaction)
            /\ UNCHANGED <<products, transactions>>
       ELSE LET createdProduct == NewProduct(body, user, NewProductID)
                transaction == [ItemID |-> createdProduct.ID,
                                UserID |-> user,
                                Description |-> createdProduct.Description,
                                Action |-> "submitted",
                                ImageData |-> body.image_data]
                t == NewTransaction(transaction, NewTransactionID)
            IN  /\ products' = Append(products, createdProduct)
                /\ IF db = "transaction"
                   THEN /\ resp' = Respond("Create", 500, NoTransaction)
                        /\ UNCHANGED transactions
                   ELSE /\ transactions' = Append(transactions, t)
                        /\ resp' = IF db = "user"
                                   THEN Respond("Create", 500, NoTransaction)
                                   ELSE Respond("Create", 201, t)

Init ==
    /\ products = <<>>
    /\ transactions = <<>>
    /\ ratings = <<>>
    /\ clock = 0
    /\ req = [op |-> "none", item |-> BadUUID, user |-> NoUser, body |-> <<>>]
    /\ resp = Respond("none", 0, NoTransaction)
    /\ calls = [p \in Procs |-> Idle]

(***************************************************************************)
(* RatingRepository                                                        *)
(***************************************************************************)
RowsOf(userID, productID) ==
    {i \in 1..Len(ratings) :
        ratings[i].UserID = userID /\ ratings[i].ProductID = productID}

FindByUserAndProductNone(userID, productID) == NoRating

\* Where("user_id = ? AND product_id = ?").First(&rating): the first row in
\* key order, nil when gorm.ErrRecordNotFound
FindByUserAndProduct(userID, productID) ==
    IF RowsOf(userID, productID) = {}
    THEN NoRating
    ELSE ratings[CHOOSE i \in RowsOf(userID, productID) :
                    \A j \in RowsOf(userID, productID) : ratings[i].ID <= ratings[j].ID]

\* repo.db.Save(rating): writes every column of the row with that key
RatingRepositoryUpdate(rating) ==
    [i \in 1..Len(ratings) |->
        IF ratings[i].ID = rating.ID THEN rating ELSE ratings[i]]

\* the identifier a new row gets when it is inserted
NewRatingID == clock + 1

RECURSIVE SumScores(_)
SumScores(rows) ==
    IF rows = <<>> THEN 0 ELSE Head(rows).Score + SumScores(Tail(rows))

RatingsOfProduct(productID) ==
    SelectSeq(ratings, LAMBDA r : r.ProductID = productID)

GetAverageRatingOfAllProducts(productID) ==
    IF ratings = <<>>
    THEN [average |-> [num |-> 0, den |-> 1], count |-> 0]
    ELSE [average |-> [num |-> SumScores(ratings), den |-> Len(ratings)],
          count |-> Len(ratings)]

\* SELECT AVG(score) as average, COUNT(*) as count: the average is the
\* fraction num/den; AVG over no rows is NULL, scanned into a float64 as 0
GetAverageRatingByProductId(productID) ==
    LET rows == RatingsOfProduct(productID)
    IN  IF rows = <<>>
        THEN [average |-> [num |-> 0, den |-> 1], count |-> 0]
        ELSE [average |-> [num |-> SumScores(rows), den |-> Len(rows)],
              count |-> Len(rows)]

\* the fraction a equals the number v
AvgEq(a, v) == a.num = v * a.den

(***************************************************************************)
(* RatingService.Create and RatingController.Create                        *)
(***************************************************************************)
UpdatedRatingKeepsScore(existingRating, score, now) ==
    [existingRating EXCEPT !.CreatedAt = now]

UpdatedRating(existingRating, score, now) ==
    [existingRating EXCEPT !.Score = score, !.CreatedAt = now]

NewRating(userID, productID, score, now, id) ==
    [ID |-> id, UserID |-> userID, ProductID |-> productID, Score |-> score,
     CreatedAt |-> now]

RespondRating(op, code, rating) == [op |-> op, code |-> code, rating |-> rating]

\* db: "ok", or the store call that fails: "find", "write"
RatingControllerCreate(user, body, db) ==
    /\ clock < MaxClock
    /\ req' = [op |-> "RatingCreate", item |-> body.product_id, user |-> user,
               body |-> body]
    /\ UNCHANGED <<products, transactions, calls>>
    /\ IF user = NoUser
       THEN /\ resp' = RespondRating("RatingCreate", 401, NoRating)
            /\ UNCHANGED <<ratings, clock>>
       ELSE IF body.product_id = BadUUID \/ db = "find" \/ db = "write"
       THEN /\ resp' = RespondRating("RatingCreate", 500, NoRating)
            /\ UNCHANGED <<ratings, clock>>
       ELSE LET existingRating == FindByUserAndProduct(user, body.product_id)
                now == clock + 1
            IN  /\ clock' = now
                /\ IF existingRating # NoRating
                   THEN LET rating == UpdatedRating(existingRating, body.score, now)
                        IN  /\ ratings' = RatingRepositoryUpdate(rating)
                            /\ resp' = RespondRating("RatingCreate", 201, rating)
                   ELSE LET rating == NewRating(user, body.product_id, body.score,
                                                now, NewRatingID)
                        IN  /\ ratings' = Append(ratings, rating)
                            /\ resp' = RespondRating("RatingCreate", 201, rating)

(***************************************************************************)
(* RatingController.Delete                                                 *)
(***************************************************************************)
\* repo.db.Delete(&models.Rating{}, "id = ?", id): no row is not an error
RatingControllerDelete(user, id) ==
    /\ req' = [op |-> "RatingDelete", item |-> id, user |-> user, body |-> <<>>]
    /\ UNCHANGED <<products, transactions, clock, calls>>
    /\ IF user = NoUser
       THEN /\ resp' = RespondRating("RatingDelete", 401, NoRating)
            /\ UNCHANGED ratings
       ELSE /\ ratings' = SelectSeq(ratings, LAMBDA r : r.ID # id)
            /\ resp' = RespondRating("RatingDelete", 200, NoRating)

(***************************************************************************)
(* RatingController.GetAverageRatingByProductId                            *)
(***************************************************************************)
RatingControllerGetAverage(productID) ==
    /\ req' = [op |-> "GetAverage", item |-> productID, user |-> NoUser,
               body |-> <<>>]
    /\ UNCHANGED <<products, transactions, ratings, clock, calls>>
    /\ IF productID = BadUUID
       THEN resp' = [op |-> "GetAverage", code |-> 400,
                     average |-> [num |-> 0, den |-> 1], count |-> 0]
       ELSE LET got == GetAverageRatingByProductId(productID)
            IN  resp' = [op |-> "GetAverage", code |-> 200,
                         average |-> got.average, count |-> got.count]

(***************************************************************************)
(* The requests the clients send.                                          *)
(***************************************************************************)
CreateBodies ==
    [description : {"d1"}, price : CreatePrices, image_data : {FALSE}]

ImageProduct == [description |-> "d1", price |-> 10, image_data |-> TRUE]

\* every action with a price, one request with another text and one request
\* that gives no price
AddBodies ==
    [description : {"d1"}, action : Actions, price : {<<p>> : p \in Prices}]
        \cup {[description |-> "d2", action |-> "sold", price |-> <<50>>],
              [description |-> "d1", action |-> "revitalized", price |-> <<>>]}

SomeProduct == [description |-> "d1", price |-> 10, image_data |-> FALSE]

SomeBody == [description |-> "d2", action |-> "sold", price |-> <<50>>]

\* well-formed requests served without a store failure, and one request for
\* each way a request is refused or a store call fails
AddInputs ==
    (ProductIDs \X Users \X AddBodies \X {"ok"})
        \cup ({1} \X {"u2"} \X {SomeBody} \X {"get", "create", "update"})
        \cup ({BadUUID} \X {"u2"} \X {SomeBody} \X {"ok"})
        \cup ({1} \X {NoUser} \X {SomeBody} \X {"ok"})

CreateInputs ==
    (Users \X CreateBodies \X {"ok"})
        \cup ({"u1"} \X {ImageProduct} \X {"ok"})
        \cup ({"u1"} \X {SomeProduct} \X {"create", "transaction", "user"})
        \cup ({NoUser} \X {SomeProduct} \X {"ok"})

DoCreate ==
    \E in \in CreateInputs : ProductControllerCreate(in[1], in[2], in[3])

DoAddTransaction ==
    \E in \in AddInputs :
        /\ Len(transactions) < MaxTx
        /\ AddTransactionToItem(in[1], in[2], in[3], in[4])

LifecycleNext == DoCreate \/ DoAddTransaction

SpecLifecycle == Init /\ [][LifecycleNext]_vars

Scores == {2, 4, 5}

RatingBodies == [product_id : ProductIDs, score : Scores]

RatingInputs ==
    (Users \X RatingBodies \X {"ok"})
        \cup ({"u1"} \X {[product_id |-> 1, score |-> 4]} \X {"find", "write"})
        \cup ({"u1"} \X {[product_id |-> BadUUID, score |-> 4]} \X {"ok"})
        \cup ({NoUser} \X {[product_id |-> 1, score |-> 4]} \X {"ok"})

DoSubmitRating ==
    \E in \in RatingInputs : RatingControllerCreate(in[1], in[2], in[3])

DoDeleteRating ==
    \E user \in {"u1", NoUser}, id \in 1..MaxClock : RatingControllerDelete(user, id)

DoGetAverage ==
    \E productID \in ProductIDs \cup {BadUUID} : RatingControllerGetAverage(productID)

RatingNext == DoSubmitRating \/ DoDeleteRating \/ DoGetAverage

SpecRating == Init /\ [][RatingNext]_vars

(***************************************************************************)
(* Properties of recordTransaction (AddTransactionToItem).                 *)
(***************************************************************************)
AddSucceeded == req.op = "AddTransactionToItem" /\ resp.code = 201

\* the product the last AddTransactionToItem was asked to write
Recorded == products[req.item]

\* the newest row of the ledger
Newest == transactions[Len(transactions)]

\* the transaction recorded before the newest one, on the same product
PreviousAction ==
    IF Len(transactions) >= 2
          /\ transactions[Len(transactions) - 1].ItemID = req.item
    THEN transactions[Len(transactions) - 1].Action
    ELSE ""

C2_RevitalizedYieldsRestored ==
    (AddSucceeded /\ req.body.action = "revitalized")
        => Recorded.Status = StatusRestored

\* a product that was sold has just been revitalized
C2_Witness ==
    /\ AddSucceeded
    /\ req.body.action = "revitalized"
    /\ PreviousAction = "sold"
    /\ Recorded.Status = StatusRestored

\* C3: after a successful recordTransaction with action
\* "submittedRevitalized" the product's status is "restored".
C3_SubmittedRevitalizedYieldsRestored ==
    (AddSucceeded /\ req.body.action = "submittedRevitalized")
        => Recorded.Status = StatusRestored

\* C4: after a successful recordTransaction whose action is "sold" or any
\* value other than submitted, revitalized and submittedRevitalized, the
\* product's status is "sold", and no action value is rejected.
C4_OtherActionsYieldSold ==
    /\ (AddSucceeded /\ req.body.action
                           \notin {"submitted", "revitalized", "submittedRevitalized"})
           => Recorded.Status = StatusSold
    /\ (req.op = "AddTransactionToItem" /\ req.item # BadUUID) => resp.code # 400

\* C5: after a successful recordTransaction the stored product is owned by
\* the acting user, whatever the action and whoever owned it before.
C5_OwnerIsActingUser == AddSucceeded => Recorded.UserID = req.user

\* a user has just recorded a transaction on a product that another user
\* created, and owns it now
C5_Witness ==
    /\ AddSucceeded
    /\ Len(transactions) = 2
    /\ transactions[1].ItemID = req.item
    /\ transactions[1].UserID # req.user
    /\ Recorded.UserID = req.user

TransactionFields == {"ID", "ItemID", "UserID", "Description", "Action", "ImageURL"}

\* the newest row of the ledger has an identifier of its own and carries the
\* product, the user, the action and the description of the request
CarriesRequest ==
    /\ resp.transaction = Newest
    /\ \A i \in 1..(Len(transactions) - 1) : transactions[i].ID # Newest.ID
    /\ Newest.ItemID = req.item
    /\ Newest.UserID = req.user
    /\ Newest.Action = req.body.action
    /\ Newest.Description = req.body.description

C7_PriceSetOnlyWhenProvided ==
    [][(req'.op = "AddTransactionToItem" /\ resp'.code = 201)
          => products'[req'.item].Price =
                 IF req'.body.price = <<>>
                 THEN products[req'.item].Price
                 ELSE req'.body.price[1]]_vars

\* C8: recordTransaction on an identifier that no product has answers 404,
\* appends no transaction and changes no product.
C8_MissingProductIsNotFound ==
    [][(/\ req'.op = "AddTransactionToItem"
        /\ req'.user \in Users
        /\ req'.item \in ProductIDs
        /\ req'.item \notin 1..Len(products))
          => /\ resp'.code = 404
             /\ UNCHANGED <<products, transactions>>]_vars

(***************************************************************************)
(* Properties of submitRating (RatingService.Create).                      *)
(***************************************************************************)
RatingSubmitted == req.op = "RatingCreate" /\ resp.code = 201

AtMostOneRowPerPair ==
    \A u \in Users, p \in ProductIDs : Cardinality(RowsOf(u, p)) <= 1

\* a submission for a pair that has a row keeps the rows' identifiers as
\* they are and answers with the row that was there
UpdatesInPlace ==
    (/\ req'.op = "RatingCreate"
     /\ resp'.code = 201
     /\ RowsOf(req'.user, req'.item) # {})
        => /\ Len(ratings') = Len(ratings)
           /\ \A i \in 1..Len(ratings) :
                 /\ ratings'[i].ID = ratings[i].ID
                 /\ ratings'[i].UserID = ratings[i].UserID
                 /\ ratings'[i].ProductID = ratings[i].ProductID
           /\ resp'.rating.ID = FindByUserAndProduct(req'.user, req'.item).ID

\* C9: the rating table holds at most one row for each (user, product), and
\* a submission for a pair that already has a row updates that row in place.
C9_OneRatingPerPair == []AtMostOneRowPerPair /\ [][UpdatesInPlace]_vars

\* a user's second submission for a product has just been served: the row
\* was inserted at an earlier time than it was last written
C9_Witness ==
    /\ RatingSubmitted
    /\ Len(ratings) = 1
    /\ ratings[1].UserID = req.user
    /\ ratings[1].ProductID = req.item
    /\ ratings[1].ID < ratings[1].CreatedAt

\* the product has exactly one rating row, and it is the user's
OnlyRater(u, p) ==
    /\ Len(RatingsOfProduct(p)) = 1
    /\ RatingsOfProduct(p)[1].UserID = u

\* C10: after a user's submissions s1 then s2 for a product nobody else
\* rated, the single row has score s2 and the aggregate is average s2,
\* count 1.
C10_SecondScoreWins ==
    /\ (RatingSubmitted
           /\ \A i \in 1..Len(ratings) :
                 ratings[i].ProductID = req.item => ratings[i].UserID = req.user)
          => /\ OnlyRater(req.user, req.item)
             /\ RatingsOfProduct(req.item)[1].Score = req.body.score
             /\ AvgEq(GetAverageRatingByProductId(req.item).average, req.body.score)
             /\ GetAverageRatingByProductId(req.item).count = 1
    /\ (req.op = "GetAverage" /\ resp.code = 200
           /\ Len(RatingsOfProduct(req.item)) = 1)
          => /\ AvgEq(resp.average, RatingsOfProduct(req.item)[1].Score)
             /\ resp.count = 1

\* the aggregate of a product was read after its only rater's second
\* submission, which gave the score 2
C10_Witness ==
    /\ req.op = "GetAverage"
    /\ resp.code = 200
    /\ Len(RatingsOfProduct(req.item)) = 1
    /\ RatingsOfProduct(req.item)[1].ID < RatingsOfProduct(req.item)[1].CreatedAt
    /\ AvgEq(resp.average, 2)
    /\ resp.count = 1

(***************************************************************************)
(* The catalogue the read handlers are served from: n products created     *)
(* with an image by alternating users and, when there are three or more,   *)
(* product 3 sold to "u2" at price 50.                                      *)
(***************************************************************************)
CatalogSizes == {2, 11}

Owner(i) == IF i % 2 = 1 THEN "u1" ELSE "u2"

Created(i) == NewProduct(ImageProduct, Owner(i), i)

CreationOf(i) ==
    NewTransaction([ItemID |-> i, UserID |-> Owner(i),
                    Description |-> Created(i).Description,
                    Action |-> "submitted", ImageData |-> TRUE], i)

SaleOf(i) == TransactionRequest(i, "u2", SomeBody)

Catalog(n) ==
    [i \in 1..n |->
        IF i = 3 THEN UpdatedProduct(Created(i), SaleOf(i), SomeBody)
                 ELSE Created(i)]

CatalogTransactions(n) ==
    [i \in 1..n |-> CreationOf(i)]
        \o (IF n >= 3 THEN <<NewTransaction(SaleOf(3), n + 1)>> ELSE <<>>)

InitCatalog ==
    /\ \E n \in CatalogSizes :
          /\ products = Catalog(n)
          /\ transactions = CatalogTransactions(n)
    /\ ratings = <<>>
    /\ clock = 0
    /\ req = [op |-> "none", item |-> BadUUID, user |-> NoUser, body |-> <<>>]
    /\ resp = Respond("none", 0, NoTransaction)
    /\ calls = [p \in Procs |-> Idle]

(***************************************************************************)
(* Sequences                                                               *)
(***************************************************************************)
Range(s) == {s[i] : i \in 1..Len(s)}

Min(a, b) == IF a <= b THEN a ELSE b

NoDuplicates(s) == \A i, j \in 1..Len(s) : s[i] = s[j] => i = j

RECURSIVE Ascending(_)
Ascending(S) ==
    IF S = {}
    THEN <<>>
    ELSE LET m == CHOOSE x \in S : \A y \in S : x <= y
         IN  <<m>> \o Ascending(S \ {m})

Reverse(s) == [i \in 1..Len(s) |-> s[Len(s) + 1 - i]]

\* s[from:] cut to at most n elements: OFFSET from LIMIT n, and s[:n]
Page(s, n, from) ==
    IF from >= Len(s) THEN <<>> ELSE SubSeq(s, from + 1, Min(Len(s), from + n))

IDsOf(rows) == [i \in 1..Len(rows) |-> rows[i].ID]

(***************************************************************************)
(* ProductRepository: the reads.  The table products is kept in key order,  *)
(* which is also the order of creation.                                    *)
(***************************************************************************)
RandomLimit == 10

\* r.db.Find(&products, ids): WHERE id IN (ids), every matching row once, in
\* the order of the key; an identifier that no row has matches nothing
GetProductsByIDs(ids) == SelectSeq(products, LAMBDA p : p.ID \in Range(ids))

\* the results ORDER BY RAND() LIMIT 10 can give: RandomLimit rows, or every
\* row when there are fewer, here with the keys going up or going down
RandomSamples ==
    LET n == Min(RandomLimit, Len(products))
        picks == {S \in SUBSET (1..Len(products)) : Cardinality(S) = n}
    IN  {Ascending(S) : S \in picks} \cup {Reverse(Ascending(S)) : S \in picks}

\* r.db.Order("RAND()").Limit(10).Find(&products), given the keys it drew
GetRandomProducts(sample) == [i \in 1..Len(sample) |-> products[sample[i]]]

\* Where("user_id = ?").Limit(count).Offset(offset)
GetProductsByUserID(userID, count, offset) ==
    Page(SelectSeq(products, LAMBDA p : p.UserID = userID), count, offset)

\* Where("status = ?").Order("created_at DESC").Limit(limit).Offset(offset)
GetByStatusPaginated(status, limit, offset) ==
    Page(Reverse(SelectSeq(products, LAMBDA p : p.Status = status)), limit, offset)

\* Order("created_at DESC").Limit(count).Offset(offset)
GetRandomProductsPaginated(count, offset) == Page(Reverse(products), count, offset)

(***************************************************************************)
(* The recommendation service's answers.  kind is "ok" for a 200 with a    *)
(* well-formed JSON body, else what went wrong: "env" (godotenv.Load),      *)
(* "connect" (http.Get / http.Post), "status" (not 200), "json" (the body   *)
(* does not decode).  ids are the keys of the JSON object (collaborative,   *)
(* item-based) in the order of the payload, or the "name"s of the similar   *)
(* images (content-based); BadUUID is a key that uuid.Parse rejects.        *)
(***************************************************************************)
GatewayFailures == {"env", "connect", "status", "json"}

Answer(kind, ids) == [kind |-> kind, ids |-> ids]

FillThreshold == 10
MaxRecommendations == 10

(***************************************************************************)
(* ProductService.FetchCollaborativeRecommendations                        *)
(***************************************************************************)
\* db: "ok", or the store call that fails: "random", "find".  The keys of a
\* Go map are visited in an order of the runtime's choosing; the rows that
\* GetProductsByIDs finds do not depend on it.
FetchCollaborativeRecommendations(gw, sample, db) ==
    IF gw.kind # "ok"
    THEN [products |-> <<>>, err |-> gw.kind]
    ELSE IF BadUUID \in Range(gw.ids)
    THEN [products |-> <<>>, err |-> "invalid product ID"]
    ELSE LET recommended == Ascending(Range(gw.ids))
             short == Len(recommended) < FillThreshold
             additionalProducts == IF short THEN GetRandomProducts(sample) ELSE <<>>
             recommendedProductIDs == recommended \o IDsOf(additionalProducts)
             found == GetProductsByIDs(recommendedProductIDs)
         IN  IF (short /\ db = "random") \/ db = "find"
             THEN [products |-> <<>>, err |-> "database error"]
             ELSE [products |-> Page(found, MaxRecommendations, 0), err |-> ""]

(***************************************************************************)
(* ProductService.FetchItemBasedRecommendations                            *)
(***************************************************************************)
FetchItemBasedRecommendations(gw, sample, db) ==
    IF gw.kind # "ok"
    THEN [products |-> <<>>, err |-> gw.kind]
    ELSE IF BadUUID \in Range(gw.ids)
    THEN [products |-> <<>>, err |-> "invalid product ID"]
    ELSE LET similar == Ascending(Range(gw.ids))
             short == Len(similar) < FillThreshold
             additionalProducts == IF short THEN GetRandomProducts(sample) ELSE <<>>
             recommendedProductIDs == similar \o IDsOf(additionalProducts)
             found == GetProductsByIDs(recommendedProductIDs)
         IN  IF (short /\ db = "random") \/ db = "find"
             THEN [products |-> <<>>, err |-> "database error"]
             ELSE [products |-> Page(found, MaxRecommendations, 0), err |-> ""]

(***************************************************************************)
(* TransactionService.FetchContentBasedRecommendations                     *)
(***************************************************************************)
\* Where("image_url IN ?", imageURLs).Find(&transactions)
GetByImageURLs(imageURLs) ==
    SelectSeq(transactions, LAMBDA t : t.ImageURL # 0 /\ t.ImageURL \in Range(imageURLs))

\* db: "ok", or "images" when GetByImageURLs fails
FetchContentBasedRecommendations(gw, db) ==
    IF gw.kind # "ok"
    THEN [itemIDs |-> <<>>, err |-> gw.kind]
    ELSE IF db = "images"
    THEN [itemIDs |-> <<>>, err |-> "failed to fetch transactions"]
    ELSE LET fetchedTransactions == GetByImageURLs(gw.ids)
         IN  [itemIDs |-> [i \in 1..Len(fetchedTransactions) |->
                              fetchedTransactions[i].ItemID],
              err |-> ""]

(***************************************************************************)
(* Query parameters.  A string is the sequence of its characters; a query  *)
(* parameter is <<>> when the URL does not have it and <<s>> when it has it *)
(* with the value s.                                                       *)
(***************************************************************************)
DigitValue ==
    [c \in {"0", "1", "2", "3", "4", "5", "6", "7", "8", "9"} |->
        CASE c = "0" -> 0 [] c = "1" -> 1 [] c = "2" -> 2 [] c = "3" -> 3
          [] c = "4" -> 4 [] c = "5" -> 5 [] c = "6" -> 6 [] c = "7" -> 7
          [] c = "8" -> 8 [] c = "9" -> 9]

RECURSIVE DigitsValue(_)
DigitsValue(s) ==
    IF s = <<>>
    THEN 0
    ELSE 10 * DigitsValue(SubSeq(s, 1, Len(s) - 1)) + DigitValue[s[Len(s)]]

\* strconv.Atoi: an optional sign and then one or more decimal digits
Atoi(s) ==
    LET signed == s # <<>> /\ s[1] \in {"-", "+"}
        digits == IF signed THEN Tail(s) ELSE s
    IN  IF digits = <<>> \/ \E i \in 1..Len(digits) : digits[i] \notin DOMAIN DigitValue
        THEN [n |-> 0, err |-> TRUE]
        ELSE [n |-> IF signed /\ s[1] = "-" THEN 0 - DigitsValue(digits)
                    ELSE DigitsValue(digits),
              err |-> FALSE]

\* c.DefaultQuery(key, defaultValue)
DefaultQuery(param, defaultValue) == IF param = <<>> THEN defaultValue ELSE param[1]

DefaultCount == <<"1", "0">>
DefaultPage == <<"1">>

(***************************************************************************)
(* ProductController.populateAdditionalProductData                         *)
(***************************************************************************)
\* a read that fails while the response is put together: fail.read is
\* "none", or "transactions" (TransactionService.GetByProductID), "ratings"
\* (GetAverageRatingByProductId), "owner" (the user store fails), "no owner"
\* (the user store has no row for the owner), "detail" (a read of
\* populateAdditionalTransactionData); fail.product is the product whose
\* read it is
Fails(fail, read, productID) == fail.read = read /\ fail.product = productID

\* GetImage: the pre-signed URL of the object with that key
PreSignedURL(key) == 0 - key

\* handleTransactionImage
WithImageURL(t) ==
    [t EXCEPT !.ImageURL = IF t.ImageURL # 0 THEN PreSignedURL(t.ImageURL) ELSE 0]

\* Where("item_id = ?").Order("created_at DESC"), then handleTransactionImage
\* on every row
TransactionServiceGetByProductID(itemID) ==
    LET rows == Reverse(SelectSeq(transactions, LAMBDA t : t.ItemID = itemID))
    IN  [i \in 1..Len(rows) |-> WithImageURL(rows[i])]

\* the score the user gave the item, 0 when there is none (the error is dropped)
GetPuanByUserIdItemId(userID, itemId) == FindByUserAndProduct(userID, itemId).Score

\* models.User as the service hands it out: the password blanked
DemographicInformation(id) == [ID |-> id, Password |-> ""]

NoProductResponse ==
    [ID |-> 0, User |-> DemographicInformation(""), Transactions |-> <<>>,
     Description |-> "", Price |-> 0, Rating |-> 0, RatingCount |-> 0,
     RatingAverage |-> [num |-> 0, den |-> 1], Status |-> ""]

\* err is the error returned; panic is TRUE when *user dereferences the nil
\* that GetDemographicInformation returned with its error (dropped), or when
\* GetDemographicInformation itself writes to the nil the repository
\* returned for a missing row
populateAdditionalProductData(product, fail) ==
    LET rating == GetAverageRatingByProductId(product.ID)
    IN  IF Fails(fail, "transactions", product.ID)
        THEN [res |-> NoProductResponse, err |-> "failed to fetch transactions",
              panic |-> FALSE]
        ELSE IF Fails(fail, "ratings", product.ID)
        THEN [res |-> NoProductResponse,
              err |-> "failed to retrieve average rating for product",
              panic |-> FALSE]
        ELSE IF Fails(fail, "owner", product.ID) \/ Fails(fail, "no owner", product.ID)
        THEN [res |-> NoProductResponse, err |-> "", panic |-> TRUE]
        ELSE [res |-> [ID |-> product.ID,
                       User |-> DemographicInformation(product.UserID),
                       Transactions |-> TransactionServiceGetByProductID(product.ID),
                       Description |-> product.Description,
                       Price |-> product.Price,
                       Rating |-> GetPuanByUserIdItemId(product.UserID, product.ID),
                       RatingCount |-> rating.count,
                       RatingAverage |-> rating.average,
                       Status |-> product.Status],
              err |-> "",
              panic |-> FALSE]

\* for _, product := range products { ...; if err != nil { continue }; append }
RECURSIVE PopulateAll(_, _)
PopulateAll(rows, fail) ==
    IF rows = <<>>
    THEN [products |-> <<>>, panic |-> FALSE]
    ELSE LET first == populateAdditionalProductData(Head(rows), fail)
             rest == PopulateAll(Tail(rows), fail)
         IN  IF first.panic \/ rest.panic
             THEN [products |-> <<>>, panic |-> TRUE]
             ELSE IF first.err # ""
             THEN rest
             ELSE [products |-> <<first.res>> \o rest.products, panic |-> FALSE]

\* the JSON answer of a handler that lists products: error is the "error" of
\* the body; query is <<>> when the handler asked the product store for no
\* page, else <<[limit, offset]>>
RespondProducts(op, code, error, list, query) ==
    [op |-> op, code |-> code, error |-> error, products |-> list, query |-> query]

\* gin.Default() installs Recovery: a handler that panics answers 500 with an
\* empty body
Recovered(op, query) == RespondProducts(op, 500, "", <<>>, query)

\* the loop over the rows and the final c.JSON(http.StatusOK, ...)
ListResponse(op, rows, fail, query) ==
    LET populated == PopulateAll(rows, fail)
    IN  IF populated.panic
        THEN Recovered(op, query)
        ELSE RespondProducts(op, 200, "", populated.products, query)

(***************************************************************************)
(* The read handlers of ProductController.  None of them writes a table.   *)
(***************************************************************************)
\* c.Query(key) of a parameter the URL does not have, or has empty
NoID == 0 - 1
NoValue == ""

Served(op, item, user, body) ==
    /\ req' = [op |-> op, item |-> item, user |-> user, body |-> body]
    /\ UNCHANGED <<products, transactions, ratings, clock, calls>>

(***************************************************************************)
(* ProductController.GetOne                                                *)
(***************************************************************************)
\* populateAdditionalTransactionData: the transactions once more, each with
\* the demographic information of its user, and the owner cut to an identifier
DetailedProduct(res) ==
    LET rows == TransactionServiceGetByProductID(res.ID)
    IN  [res EXCEPT
            !.User = res.User.ID,
            !.Transactions =
                [i \in 1..Len(rows) |->
                    [ID |-> rows[i].ID, ItemID |-> rows[i].ItemID,
                     Description |-> rows[i].Description,
                     Action |-> rows[i].Action, ImageURL |-> rows[i].ImageURL,
                     User |-> DemographicInformation(rows[i].UserID)]]]

\* db: "ok" or "get"
GetOne(id, db, fail) ==
    /\ Served("GetOne", id, NoUser, [db |-> db, fail |-> fail])
    /\ IF id = NoID
       THEN resp' = RespondProducts("GetOne", 400, "Missing product ID", <<>>, <<>>)
       ELSE IF id = BadUUID
       THEN resp' = RespondProducts("GetOne", 400, "Invalid product ID format",
                                    <<>>, <<>>)
       ELSE LET got == GetByID(id, db = "get")
                populated == populateAdditionalProductData(got.product, fail)
            IN  IF got.err # ""
                THEN resp' = RespondProducts("GetOne", 404, "Product not found",
                                             <<>>, <<>>)
                ELSE IF populated.panic
                THEN resp' = Recovered("GetOne", <<>>)
                ELSE IF populated.err # ""
                THEN resp' = RespondProducts("GetOne", 500,
                                 "Failed to retrieve additional product data",
                                 <<>>, <<>>)
                ELSE IF Fails(fail, "detail", id)
                THEN resp' = RespondProducts("GetOne", 500,
                                 "Failed to retrieve additional Transaction data",
                                 <<>>, <<>>)
                ELSE resp' = RespondProducts("GetOne", 200, "",
                                 <<DetailedProduct(populated.res)>>, <<>>)

(***************************************************************************)
(* ProductController.GetContentBased                                       *)
(***************************************************************************)
GetContentBasedRowsNoFallback(fetched, sample, db) ==
    IF fetched.err # ""
    THEN [rows |-> <<>>, err |-> "Failed to fetch recommendations"]
    ELSE IF db = "find"
    THEN [rows |-> <<>>, err |-> "Failed to retrieve products"]
    ELSE [rows |-> GetProductsByIDs(fetched.itemIDs), err |-> ""]

\* the rows the handler goes on to populate: the random products when the
\* fetch failed, else the products of the fetched identifiers
GetContentBasedRows(fetched, sample, db) ==
    IF fetched.err # ""
    THEN IF db = "random"
         THEN [rows |-> <<>>, err |-> "Failed to retrieve random products"]
         ELSE [rows |-> GetRandomProducts(sample), err |-> ""]
    ELSE IF db = "find"
    THEN [rows |-> <<>>, err |-> "Failed to retrieve products"]
    ELSE [rows |-> GetProductsByIDs(fetched.itemIDs), err |-> ""]

\* db: "ok", or the store call that fails: "images", "random", "find"
GetContentBased(imageURL, gw, sample, db, fail) ==
    /\ Served("GetContentBased", BadUUID, NoUser,
              [image_url |-> imageURL, gw |-> gw, sample |-> sample, db |-> db,
               fail |-> fail])
    /\ IF imageURL = NoValue
       THEN resp' = RespondProducts("GetContentBased", 400, "Invalid image URL",
                                    <<>>, <<>>)
       ELSE LET fetched == FetchContentBasedRecommendations(gw, db)
                got == GetContentBasedRows(fetched, sample, db)
            IN  IF got.err # ""
                THEN resp' = RespondProducts("GetContentBased", 500, got.err,
                                             <<>>, <<>>)
                ELSE resp' = ListResponse("GetContentBased", got.rows, fail, <<>>)

(***************************************************************************)
(* ProductController.GetCollaborative, behind middleware.JWTAuth           *)
(***************************************************************************)
\* db: "ok", or the store call that fails: "random", "find"
GetCollaborative(user, gw, sample, db, fail) ==
    /\ Served("GetCollaborative", BadUUID, user,
              [gw |-> gw, sample |-> sample, db |-> db, fail |-> fail])
    /\ IF user = NoUser
       THEN resp' = RespondProducts("GetCollaborative", 401,
                                    "Authorization header missing", <<>>, <<>>)
       ELSE LET fetched == FetchCollaborativeRecommendations(gw, sample, db)
            IN  IF fetched.err # ""
                THEN resp' = RespondProducts("GetCollaborative", 500,
                                 "Failed to retrieve collaborative products",
                                 <<>>, <<>>)
                ELSE resp' = ListResponse("GetCollaborative", fetched.products,
                                          fail, <<>>)

(***************************************************************************)
(* ProductService.FetchItemBasedRecommendations, as the item-based route   *)
(* calls it: the answer is the service's result                            *)
(***************************************************************************)
ItemBased(productID, gw, sample, db) ==
    /\ Served("FetchItemBasedRecommendations", productID, NoUser,
              [gw |-> gw, sample |-> sample, db |-> db,
               fail |-> [read |-> "none", product |-> BadUUID]])
    /\ LET fetched == FetchItemBasedRecommendations(gw, sample, db)
       IN  resp' = RespondProducts("FetchItemBasedRecommendations",
                                   IF fetched.err = "" THEN 200 ELSE 500,
                                   fetched.err, fetched.products, <<>>)

(***************************************************************************)
(* ProductController.GetRandomProducts                                     *)
(***************************************************************************)
\* db: "ok" or "random"
GetRandomProductsHandler(sample, db, fail) ==
    /\ Served("GetRandomProducts", BadUUID, NoUser,
              [sample |-> sample, db |-> db, fail |-> fail])
    /\ IF db = "random"
       THEN resp' = RespondProducts("GetRandomProducts", 500,
                                    "Failed to retrieve random products", <<>>, <<>>)
       ELSE resp' = ListResponse("GetRandomProducts", GetRandomProducts(sample),
                                 fail, <<>>)

(***************************************************************************)
(* ProductController.GetRatedProductsByUserID                              *)
(***************************************************************************)
\* the identifiers of the products the user has rated, one per rating row
GetRatedItemsByUserID(userID) ==
    LET rows == SelectSeq(ratings, LAMBDA r : r.UserID = userID)
    IN  [i \in 1..Len(rows) |-> rows[i].ProductID]

\* the loop over the rated identifiers: a product that cannot be fetched ends
\* the request (err), and p, _ := populateAdditionalProductData(product)
\* drops the error, so that the record it came back with is appended as it is
RECURSIVE PopulateRated(_, _, _)
PopulateRated(ids, db, fail) ==
    IF ids = <<>>
    THEN [products |-> <<>>, err |-> "", panic |-> FALSE]
    ELSE LET got == GetByID(Head(ids), db = "get")
             first == populateAdditionalProductData(got.product, fail)
             rest == PopulateRated(Tail(ids), db, fail)
         IN  IF got.err # ""
             THEN [products |-> <<>>, err |-> "Unable to fetch product details",
                   panic |-> FALSE]
             ELSE IF first.panic
             THEN [products |-> <<>>, err |-> "", panic |-> TRUE]
             ELSE IF rest.err # "" \/ rest.panic
             THEN rest
             ELSE [products |-> <<first.res>> \o rest.products, err |-> "",
                   panic |-> FALSE]

\* db: "ok", "ratings" or "get"
GetRatedProductsByUserID(userID, db, fail) ==
    /\ Served("GetRatedProductsByUserID", BadUUID, userID,
              [db |-> db, fail |-> fail])
    /\ IF db = "ratings"
       THEN resp' = RespondProducts("GetRatedProductsByUserID", 500,
                                    "Unable to fetch rated items", <<>>, <<>>)
       ELSE LET rated == PopulateRated(GetRatedItemsByUserID(userID), db, fail)
            IN  IF rated.panic
                THEN resp' = Recovered("GetRatedProductsByUserID", <<>>)
                ELSE IF rated.err # ""
                THEN resp' = RespondProducts("GetRatedProductsByUserID", 500,
                                             rated.err, <<>>, <<>>)
                ELSE resp' = RespondProducts("GetRatedProductsByUserID", 200, "",
                                             rated.products, <<>>)

(***************************************************************************)
(* The paginated reads                                                     *)
(***************************************************************************)
OffsetCountingFromZero(page, count) == page * count

\* offset := (page - 1) * count
Offset(page, count) == (page - 1) * count

Query(limit, offset) == <<[limit |-> limit, offset |-> offset]>>

\* a user_id that uuid.Parse rejects
BadUser == "not-a-uuid"

\* ProductController.GetProductsByUserID; db: "ok" or "query"
GetProductsByUserIDHandler(userIDStr, countParam, pageParam, db, fail) ==
    /\ Served("GetProductsByUserID", BadUUID, userIDStr,
              [count |-> countParam, page |-> pageParam, db |-> db, fail |-> fail])
    /\ LET count == Atoi(DefaultQuery(countParam, DefaultCount))
           page == Atoi(DefaultQuery(pageParam, DefaultPage))
           offset == Offset(page.n, count.n)
           answer(code, error) ==
               RespondProducts("GetProductsByUserID", code, error, <<>>, <<>>)
       IN  IF userIDStr = NoValue
           THEN resp' = answer(400, "Missing user ID")
           ELSE IF userIDStr = BadUser
           THEN resp' = answer(400, "Invalid user ID format")
           ELSE IF count.err \/ count.n <= 0
           THEN resp' = answer(400, "Invalid count value")
           ELSE IF page.err \/ page.n <= 0
           THEN resp' = answer(400, "Invalid page value")
           ELSE IF db = "query"
           THEN resp' = RespondProducts("GetProductsByUserID", 500,
                            "Failed to retrieve user products", <<>>,
                            Query(count.n, offset))
           ELSE resp' = ListResponse("GetProductsByUserID",
                            GetProductsByUserID(userIDStr, count.n, offset),
                            fail, Query(count.n, offset))

FallbackLimit == 10
FallbackPage == 1

\* ProductController.GetProductsByStatus; db: "ok" or "query"
GetProductsByStatus(status, limitParam, pageParam, db, fail) ==
    /\ Served("GetProductsByStatus", BadUUID, NoUser,
              [status |-> status, count |-> limitParam, page |-> pageParam,
               db |-> db, fail |-> fail])
    /\ LET parsedLimit == Atoi(DefaultQuery(limitParam, DefaultCount))
           limit == IF parsedLimit.err \/ parsedLimit.n < 1
                    THEN FallbackLimit ELSE parsedLimit.n
           parsedPage == Atoi(DefaultQuery(pageParam, DefaultPage))
           page == IF parsedPage.err \/ parsedPage.n < 1
                   THEN FallbackPage ELSE parsedPage.n
           offset == Offset(page, limit)
       IN  IF status = NoValue
           THEN resp' = RespondProducts("GetProductsByStatus", 400,
                            "Status parameter is required", <<>>, <<>>)
           ELSE IF db = "query"
           THEN resp' = RespondProducts("GetProductsByStatus", 500,
                            "Failed to retrieve products", <<>>,
                            Query(limit, offset))
           ELSE resp' = ListResponse("GetProductsByStatus",
                            GetByStatusPaginated(status, limit, offset),
                            fail, Query(limit, offset))

\* the answer of GetPaginatedRandomProducts also tells the page, the count
\* and len(products)
WithPage(answer, page, count, total) ==
    [op |-> answer.op, code |-> answer.code, error |-> answer.error,
     products |-> answer.products, query |-> answer.query,
     page |-> page, count |-> count, total |-> total]

\* ProductController.GetPaginatedRandomProducts; db: "ok" or "query"
GetPaginatedRandomProducts(countParam, pageParam, db, fail) ==
    /\ Served("GetPaginatedRandomProducts", BadUUID, NoUser,
              [count |-> countParam, page |-> pageParam, db |-> db, fail |-> fail])
    /\ LET parsedCount == Atoi(DefaultQuery(countParam, DefaultCount))
           count == IF parsedCount.err \/ parsedCount.n <= 0
                    THEN FallbackLimit ELSE parsedCount.n
           parsedPage == Atoi(DefaultQuery(pageParam, DefaultPage))
           page == IF parsedPage.err \/ parsedPage.n <= 0
                   THEN FallbackPage ELSE parsedPage.n
           offset == Offset(page, count)
           rows == GetRandomProductsPaginated(count, offset)
           answer == ListResponse("GetPaginatedRandomProducts", rows, fail,
                                  Query(count, offset))
       IN  IF db = "query"
           THEN resp' = RespondProducts("GetPaginatedRandomProducts", 500,
                            "Failed to retrieve random products", <<>>,
                            Query(count, offset))
           ELSE IF answer.code # 200
           THEN resp' = answer
           ELSE resp' = WithPage(answer, page, count, Len(rows))

(***************************************************************************)
(* The requests the clients of the read handlers send, the answers the     *)
(* recommendation service gives and the reads that fail.                   *)
(***************************************************************************)
NoFail == [read |-> "none", product |-> BadUUID]

\* one of each read that can fail while product 1 is put together
FailedReads ==
    {[read |-> r, product |-> 1] :
        r \in {"transactions", "ratings", "owner", "no owner", "detail"}}

UpTo(n) == [i \in 1..n |-> i]

\* identifiers of the collaborative and the item-based answer: none, one,
\* three (of which product 11 is the last the store has), ten, one that no
\* product has, and one that is not a UUID
RecommendedIDs ==
    {<<>>, <<2>>, <<11, 2, 5>>, UpTo(10), <<99>>, <<1, BadUUID>>}

GatewayAnswers ==
    {Answer("ok", ids) : ids \in RecommendedIDs}
        \cup {Answer(kind, <<>>) : kind \in GatewayFailures}

\* image names of the content-based answer: none, two, one twice, the
\* images of eleven products, and one that no transaction has
SimilarImages == {<<>>, <<1, 2>>, <<2, 2>>, UpTo(11), <<99>>}

ContentAnswers ==
    {Answer("ok", names) : names \in SimilarImages}
        \cup {Answer(kind, <<>>) : kind \in GatewayFailures}

SomeAnswer == Answer("ok", <<11, 2, 5>>)
SomeFailure == Answer("status", <<>>)
SomeSample == UpTo(Min(RandomLimit, Len(products)))

\* every answer with one sample, three answers with every sample, and one of
\* each store failure and failed read
RecommendationInputs ==
    (GatewayAnswers \X {SomeSample} \X {"ok"} \X {NoFail})
        \cup ({SomeAnswer, Answer("ok", <<>>), SomeFailure}
                 \X RandomSamples \X {"ok"} \X {NoFail})
        \cup ({SomeAnswer} \X {SomeSample} \X {"random", "find"} \X {NoFail})
        \cup ({SomeAnswer} \X {SomeSample} \X {"ok"} \X FailedReads)

ContentInputs ==
    (ContentAnswers \X {SomeSample} \X {"ok"} \X {NoFail})
        \cup ({SomeFailure, Answer("connect", <<>>)}
                 \X RandomSamples \X {"ok"} \X {NoFail})
        \cup ({SomeFailure, Answer("ok", <<1, 2>>)} \X {SomeSample}
                 \X {"images", "random", "find"} \X {NoFail})
        \cup ({SomeFailure, Answer("ok", <<1, 2>>)} \X {SomeSample}
                 \X {"ok"} \X FailedReads)

DoGetCollaborative ==
    \/ \E in \in RecommendationInputs :
          GetCollaborative("u1", in[1], in[2], in[3], in[4])
    \/ GetCollaborative(NoUser, SomeAnswer, SomeSample, "ok", NoFail)

DoItemBased ==
    \E in \in RecommendationInputs :
        /\ in[4] = NoFail
        /\ ItemBased(1, in[1], in[2], in[3])

DoGetContentBased ==
    \/ \E in \in ContentInputs :
          GetContentBased("7.jpg", in[1], in[2], in[3], in[4])
    \/ GetContentBased(NoValue, SomeFailure, SomeSample, "ok", NoFail)

DoGetRandomProducts ==
    \/ \E sample \in RandomSamples : GetRandomProductsHandler(sample, "ok", NoFail)
    \/ GetRandomProductsHandler(SomeSample, "random", NoFail)
    \/ \E fail \in FailedReads : GetRandomProductsHandler(SomeSample, "ok", fail)

DoGetOne ==
    \/ \E id \in {NoID, BadUUID, 1, 2, 3, 99} : GetOne(id, "ok", NoFail)
    \/ GetOne(1, "get", NoFail)
    \/ \E fail \in FailedReads : GetOne(1, "ok", fail)

\* count (limit) and page as the URL gives them: absent, positive, zero,
\* negative, not a number
CountParams == {<<>>, <<<<"1", "0">>>>, <<<<"5">>>>, <<<<"0">>>>, <<<<"-", "1">>>>,
                <<<<"a", "b", "c">>>>}
PageParams == {<<>>, <<<<"1">>>>, <<<<"2">>>>, <<<<"3">>>>, <<<<"0">>>>,
               <<<<"-", "2">>>>, <<<<"x">>>>}

PageInputs ==
    (CountParams \X PageParams \X {"ok"} \X {NoFail})
        \cup ({<<<<"5">>>>} \X {<<<<"1">>>>} \X {"query"} \X {NoFail})
        \cup ({<<<<"5">>>>} \X {<<<<"1">>>>} \X {"ok"} \X FailedReads)

DoGetProductsByUserID ==
    \/ \E user \in Users, in \in PageInputs :
          GetProductsByUserIDHandler(user, in[1], in[2], in[3], in[4])
    \/ \E user \in {NoValue, BadUser} :
          GetProductsByUserIDHandler(user, <<>>, <<>>, "ok", NoFail)

DoGetProductsByStatus ==
    \/ \E status \in {StatusAvailable, StatusSold}, in \in PageInputs :
          GetProductsByStatus(status, in[1], in[2], in[3], in[4])
    \/ GetProductsByStatus(NoValue, <<>>, <<>>, "ok", NoFail)

DoGetPaginatedRandomProducts ==
    \E in \in PageInputs : GetPaginatedRandomProducts(in[1], in[2], in[3], in[4])

\* the ratings given while the catalogue is read
CatalogRatingInputs ==
    {<<"u1", [product_id |-> 1, score |-> 4], "ok">>,
     <<"u2", [product_id |-> 1, score |-> 5], "ok">>,
     <<"u1", [product_id |-> 2, score |-> 2], "ok">>}

DoRate ==
    \E in \in CatalogRatingInputs : RatingControllerCreate(in[1], in[2], in[3])

DoGetRatedProductsByUserID ==
    \/ \E user \in Users : GetRatedProductsByUserID(user, "ok", NoFail)
    \/ \E db \in {"ratings", "get"} : GetRatedProductsByUserID("u1", db, NoFail)
    \/ \E fail \in FailedReads : GetRatedProductsByUserID("u1", "ok", fail)

\* GetOne, GetRandomProducts and the rated products while ratings are given
EnrichNext ==
    DoGetOne \/ DoGetRandomProducts \/ DoGetRatedProductsByUserID \/ DoRate

SpecEnrich == InitCatalog /\ [][EnrichNext]_vars

\* the three recommendation paths
RecommendNext == DoGetContentBased \/ DoGetCollaborative \/ DoItemBased

SpecRecommend == InitCatalog /\ [][RecommendNext]_vars

\* the three paginated reads
PagesNext ==
    DoGetProductsByUserID \/ DoGetProductsByStatus \/ DoGetPaginatedRandomProducts

SpecPages == InitCatalog /\ [][PagesNext]_vars

(***************************************************************************)
(* Properties of the rating aggregate and of the assembly of a product's   *)
(* response.                                                               *)
(***************************************************************************)
\* GetOne found the product and no read failed
GetOneServed ==
    /\ req.op = "GetOne"
    /\ req.item \in 1..Len(products)
    /\ req.body.db = "ok"
    /\ req.body.fail = NoFail

\* C11: for every product with zero ratings the rating aggregate is average 0
\* and count 0, and the response assembled for such a product is served, with
\* rating average 0 and rating count 0.
C11_ZeroRatingsAggregateIsZero ==
    /\ \A i \in 1..Len(products) :
          RatingsOfProduct(i) = <<>>
              => /\ AvgEq(GetAverageRatingByProductId(i).average, 0)
                 /\ GetAverageRatingByProductId(i).count = 0
    /\ (GetOneServed /\ RatingsOfProduct(req.item) = <<>>)
          => /\ resp.code = 200
             /\ resp.products[1].ID = req.item
             /\ resp.products[1].RatingCount = 0
             /\ AvgEq(resp.products[1].RatingAverage, 0)
             /\ resp.products[1].Rating = 0

\* product 2, which nobody rated, has been read while product 1 has ratings
C11_Witness ==
    /\ GetOneServed
    /\ req.item = 2
    /\ RatingsOfProduct(2) = <<>>
    /\ Len(RatingsOfProduct(1)) = 2
    /\ resp.code = 200
    /\ resp.products[1].RatingCount = 0

(***************************************************************************)
(* Properties of the recommendation paths.                                 *)
(***************************************************************************)
\* the handler was GetCollaborative or the item-based fetch
MergedPath == req.op \in {"GetCollaborative", "FetchItemBasedRecommendations"}

\* the caller is signed in wherever the route asks for it
SignedIn == req.op = "GetCollaborative" => req.user \in Users

\* no store call and no read of the assembly failed
StoreAvailable == req.body.db = "ok" /\ req.body.fail = NoFail

\* the identifiers of the products of the answer, in the answer's order
Returned == IDsOf(resp.products)

\* the identifiers the recommendation service gave
Hits == Range(req.body.gw.ids)

\* C12: when the collaborative call returns k < 10 identifiers that all
\* exist in a store of at least 10 products, byCollaborative returns exactly
\* 10 products: all k hits plus 10 - k random-fill products, none twice.
C12_ShortAnswerIsFilledToTen ==
    (/\ req.op = "GetCollaborative"
     /\ SignedIn
     /\ StoreAvailable
     /\ req.body.gw.kind = "ok"
     /\ Len(req.body.gw.ids) < FillThreshold
     /\ Hits \subseteq 1..Len(products)
     /\ Len(products) >= MaxRecommendations)
        => /\ resp.code = 200
           /\ Len(Returned) = MaxRecommendations
           /\ NoDuplicates(Returned)
           /\ Hits \subseteq Range(Returned)

\* a request for recommendations that has what its route asks for
RecommendationAsked ==
    /\ req.op \in {"GetContentBased", "GetCollaborative",
                   "FetchItemBasedRecommendations"}
    /\ SignedIn
    /\ req.op = "GetContentBased" => req.body.image_url # NoValue

\* C13: on each recommendation path and for every answer of the
\* recommendation service (full, short, empty, failure) a list is returned,
\* it has at most 10 products and no product identifier is in it twice.
C13_AtMostTenAndUnique ==
    (RecommendationAsked /\ StoreAvailable)
        => /\ resp.code = 200
           /\ Len(Returned) <= MaxRecommendations
           /\ NoDuplicates(Returned)

\* the identifiers the recommendation service gave that the store has, in
\* the order of the payload
LiveHits == SelectSeq(req.body.gw.ids, LAMBDA id : id \in 1..Len(products))

\* C14: in the merged result of byCollaborative and byItem the live hits
\* come first, in the order the recommendation service gave them, followed
\* by the fallback fill; the cut to 10 never drops a live hit while it keeps
\* a fallback product.
C14_LiveHitsComeFirst ==
    (MergedPath /\ SignedIn /\ StoreAvailable
        /\ req.body.gw.kind = "ok" /\ resp.code = 200)
        => LET k == Min(Len(LiveHits), Len(Returned))
           IN  /\ SubSeq(Returned, 1, k) = SubSeq(LiveHits, 1, k)
               /\ (\E i \in 1..Len(Returned) : Returned[i] \notin Hits)
                     => Range(LiveHits) \subseteq Range(Returned)

\* the call to the recommendation service failed: no connection, a status
\* other than 200, a body that does not decode, or an identifier in the
\* payload that is not a UUID
GatewayFailed ==
    \/ req.body.gw.kind \in GatewayFailures
    \/ req.body.gw.kind = "ok" /\ BadUUID \in Hits

\* the answer is the random sample that was drawn
AnswersRandomSample == resp.code = 200 /\ Returned = req.body.sample

\* C15: when the call to the recommendation service fails in byCollaborative
\* or byItem while the store is available, the request succeeds and returns
\* the random sample; the failure is not surfaced.
C15_GatewayFailureIsAbsorbed ==
    (MergedPath /\ SignedIn /\ StoreAvailable /\ GatewayFailed)
        => AnswersRandomSample

\* C16: when the content-based call to the recommendation service fails for
\* any reason and the store is available, byContent answers 200 with the
\* random sample, of the target size 10 or of the whole store when it has
\* fewer products, instead of an error.
C16_ContentFailureFallsBackToRandom ==
    (/\ req.op = "GetContentBased"
     /\ req.body.image_url # NoValue
     /\ req.body.gw.kind \in GatewayFailures
     /\ StoreAvailable)
        => /\ AnswersRandomSample
           /\ resp.error = ""
           /\ Len(Returned) = Min(RandomLimit, Len(products))
           /\ NoDuplicates(Returned)

\* the recommendation service could not be reached and the answer is a
\* sample of 10 of the 11 products that starts with product 11
C16_Witness ==
    /\ req.op = "GetContentBased"
    /\ req.body.gw.kind = "connect"
    /\ StoreAvailable
    /\ Len(products) = 11
    /\ resp.code = 200
    /\ Len(resp.products) = 10
    /\ resp.products[1].ID = 11

\* C17: when the caller of byCollaborative is not signed in, the request is
\* not rejected: it succeeds with the random sample, whatever the
\* recommendation service would have answered.
C17_AnonymousGetsRandomSample ==
    (req.op = "GetCollaborative" /\ req.user = NoUser /\ StoreAvailable)
        => AnswersRandomSample

(***************************************************************************)
(* Properties of the paginated reads.                                      *)
(***************************************************************************)
\* a paginated read that has the parameters it cannot do without
PageAsked ==
    \/ req.op = "GetPaginatedRandomProducts"
    \/ req.op = "GetProductsByStatus" /\ req.body.status # NoValue
    \/ req.op = "GetProductsByUserID" /\ req.user \in Users

\* the URL has the parameter and it is the decimal form of a positive number
Positive(param) ==
    /\ param # <<>>
    /\ ~Atoi(param[1]).err
    /\ Atoi(param[1]).n > 0

Ten == <<"1", "0">>

\* C18: for every positive count (limit) and page the paginated reads
\* random/paginated, status and byUser ask the store for limit = count and
\* offset = (page - 1) * count; random/paginated(count=10, page=2) asks for
\* offset 10 and status(limit=5, page=3) asks for offset 10.
C18_OffsetFromPage ==
    /\ (PageAsked /\ Positive(req.body.count) /\ Positive(req.body.page))
          => resp.query =
                 <<[limit |-> Atoi(req.body.count[1]).n,
                    offset |-> (Atoi(req.body.page[1]).n - 1)
                                   * Atoi(req.body.count[1]).n]>>
    /\ (req.op = "GetPaginatedRandomProducts"
           /\ req.body.count = <<Ten>> /\ req.body.page = <<<<"2">>>>)
          => resp.query = <<[limit |-> 10, offset |-> 10]>>
    /\ (req.op = "GetProductsByStatus" /\ req.body.status = StatusSold
           /\ req.body.count = <<<<"5">>>> /\ req.body.page = <<<<"3">>>>)
          => resp.query = <<[limit |-> 5, offset |-> 10]>>

\* page 2 of random/paginated with count 10 has been served from the store
\* of 11 products: the store was asked for offset 10 and gave its last row
C18_Witness ==
    /\ req.op = "GetPaginatedRandomProducts"
    /\ req.body.count = <<Ten>>
    /\ req.body.page = <<<<"2">>>>
    /\ Len(products) = 11
    /\ resp.code = 200
    /\ resp.query = <<[limit |-> 10, offset |-> 10]>>
    /\ Returned = <<1>>

\* the URL has the parameter, with a value that is not a positive number
NotPositive(param) == param # <<>> /\ ~Positive(param)

\* C19: a count, limit or page that is not positive or not a number is
\* rejected with 400 on every paginated read, and the store is asked for no
\* page.
C19_BadPaginationIsRejected ==
    (PageAsked /\ (NotPositive(req.body.count) \/ NotPositive(req.body.page)))
        => /\ resp.code = 400
           /\ resp.query = <<>>

(***************************************************************************)
(* Properties of populateAdditionalProductData.                            *)
(***************************************************************************)
\* the reads populateAdditionalProductData depends on
AssemblyReads == {"transactions", "ratings", "owner", "no owner"}

\* C20: when the transaction read, the rating aggregate read or the lookup
\* of the owner fails, populateAdditionalProductData returns an error and no
\* record: GetOne answers with the error of its err != nil branch and with
\* no product.
C20_FailedReadFailsAssembly ==
    (/\ req.op = "GetOne"
     /\ req.item \in 1..Len(products)
     /\ req.body.db = "ok"
     /\ req.body.fail.read \in AssemblyReads
     /\ req.body.fail.product = req.item)
        => /\ resp.code = 500
           /\ resp.error = "Failed to retrieve additional product data"
           /\ resp.products = <<>>

(***************************************************************************)
(* Handlers in flight together.  A handler is cut where it calls the       *)
(* database: between two calls of one request the calls of another request *)
(* can run.  The store runs each single statement atomically.              *)
(***************************************************************************)
InFlight(pc) == {p \in Procs : calls[p].pc = pc}

\* one product, with the transaction of its creation, and nothing in flight
InitRace ==
    /\ products = Catalog(1)
    /\ transactions = CatalogTransactions(1)
    /\ ratings = <<>>
    /\ clock = 0
    /\ req = [op |-> "none", item |-> BadUUID, user |-> NoUser, body |-> <<>>]
    /\ resp = Respond("none", 0, NoTransaction)
    /\ calls = [p \in Procs |-> Idle]

(***************************************************************************)
(* AddTransactionToItem in three steps: productService.GetByID,            *)
(* transactionService.AddTransaction, productService.Update                *)
(***************************************************************************)
\* product, err := controller.productService.GetByID(itemID)
\* db: "ok", or "update" when the Update of the last step is going to fail
ReadProduct(p, itemID, user, body, db) ==
    /\ calls[p].pc = "idle"
    /\ GetByID(itemID, FALSE).err = ""
    /\ calls' = [calls EXCEPT ![p] =
                    [Idle EXCEPT !.pc = "read", !.item = itemID, !.user = user,
                                 !.body = body, !.db = db,
                                 !.product = GetByID(itemID, FALSE).product]]
    /\ UNCHANGED <<products, transactions, ratings, clock, req, resp>>

\* t, err := controller.transactionService.AddTransaction(&transaction)
AppendTransaction(p) ==
    /\ calls[p].pc = "read"
    /\ LET c == calls[p]
           t == NewTransaction(TransactionRequest(c.item, c.user, c.body),
                               NewTransactionID)
       IN  /\ transactions' = Append(transactions, t)
           /\ calls' = [calls EXCEPT ![p] = [c EXCEPT !.pc = "appended", !.t = t]]
    /\ UNCHANGED <<products, ratings, clock, req, resp>>

\* the three assignments to the product read in the first step, then
\* controller.productService.Update(product): the 500 of its err != nil
\* branch, or the 201
WriteProduct(p) ==
    /\ calls[p].pc = "appended"
    /\ LET c == calls[p]
       IN  /\ req' = [op |-> "AddTransactionToItem", item |-> c.item,
                      user |-> c.user, body |-> c.body]
           /\ IF c.db = "update"
              THEN /\ resp' = Respond("AddTransactionToItem", 500, NoTransaction)
                   /\ UNCHANGED products
              ELSE /\ products' = ProductRepositoryUpdate(
                           UpdatedProduct(c.product,
                                          TransactionRequest(c.item, c.user, c.body),
                                          c.body))
                   /\ resp' = Respond("AddTransactionToItem", 201, c.t)
    /\ calls' = [calls EXCEPT ![p] = Idle]
    /\ UNCHANGED <<transactions, ratings, clock>>

\* a sale, a revitalization with no price and a submission under the
\* handler's own literal
RaceBodies ==
    {SomeBody,
     [description |-> "d1", action |-> "revitalized", price |-> <<>>],
     [description |-> "d1", action |-> "submited", price |-> <<10>>]}

\* every request with a store that works, and one whose Update fails
DoReadProduct ==
    \E p \in Procs, in \in (Users \X RaceBodies \X {"ok"})
                            \cup {<<"u2", SomeBody, "update">>} :
        /\ Len(transactions) + Cardinality(InFlight("read")) < MaxTx
        /\ ReadProduct(p, 1, in[1], in[2], in[3])

DoAppendTransaction == \E p \in Procs : AppendTransaction(p)

DoWriteProduct == \E p \in Procs : WriteProduct(p)

TransactionRaceNext == DoReadProduct \/ DoAppendTransaction \/ DoWriteProduct

SpecTransactionRace == InitRace /\ [][TransactionRaceNext]_vars

(***************************************************************************)
(* RatingService.Create in two steps: ratingRepo.FindByUserAndProduct,     *)
(* then ratingRepo.Update or ratingRepo.Create                             *)
(***************************************************************************)
\* existingRating, err := service.ratingRepo.FindByUserAndProduct(...)
FindExisting(p, user, body) ==
    /\ calls[p].pc = "idle"
    /\ calls' = [calls EXCEPT ![p] =
                    [Idle EXCEPT !.pc = "found", !.item = body.product_id,
                                 !.user = user, !.body = body,
                                 !.existingRating =
                                     FindByUserAndProduct(user, body.product_id)]]
    /\ UNCHANGED <<products, transactions, ratings, clock, req, resp>>

\* if existingRating != nil { ...Update(existingRating) } else { ...Create(rating) }
WriteRating(p) ==
    /\ calls[p].pc = "found"
    /\ LET c == calls[p]
           now == clock + 1
           rating == IF c.existingRating # NoRating
                     THEN UpdatedRating(c.existingRating, c.body.score, now)
                     ELSE NewRating(c.user, c.item, c.body.score, now, NewRatingID)
       IN  /\ clock' = now
           /\ ratings' = IF c.existingRating # NoRating
                         THEN RatingRepositoryUpdate(rating)
                         ELSE Append(ratings, rating)
           /\ req' = [op |-> "RatingCreate", item |-> c.item, user |-> c.user,
                      body |-> c.body]
           /\ resp' = RespondRating("RatingCreate", 201, rating)
    /\ calls' = [calls EXCEPT ![p] = Idle]
    /\ UNCHANGED <<products, transactions>>

RaceRatingBodies == [product_id : {1}, score : {2, 5}]

DoFindExisting ==
    \E p \in Procs, user \in Users, body \in RaceRatingBodies :
        /\ clock + Cardinality(InFlight("found")) < MaxClock
        /\ FindExisting(p, user, body)

DoWriteRating == \E p \in Procs : WriteRating(p)

RatingRaceNext == DoFindExisting \/ DoWriteRating

SpecRatingRace == InitRace /\ [][RatingRaceNext]_vars

(***************************************************************************)
(* Creations and transactions served one at a time, every transaction      *)
(* either recorded with its product update or refused before its insert.   *)
(***************************************************************************)
\* a sale, a revitalization and a submission of each user on each product,
\* and one request for each way a request fails before the insert
CompleteInputs ==
    (ProductIDs \X Users \X RaceBodies \X {"ok"})
        \cup ({1} \X {"u2"} \X {SomeBody} \X {"get", "create"})
        \cup ({BadUUID} \X {"u2"} \X {SomeBody} \X {"ok"})
        \cup ({1} \X {NoUser} \X {SomeBody} \X {"ok"})

DoAddCompletely ==
    \E in \in CompleteInputs :
        /\ Len(transactions) < MaxTx
        /\ AddTransactionToItem(in[1], in[2], in[3], in[4])

CompleteNext == DoCreate \/ DoAddCompletely

SpecComplete == Init /\ [][CompleteNext]_vars

(***************************************************************************)
(* Every kind of request that reaches the transaction table: creations,    *)
(* transactions, ratings, and the reads that return transactions or look   *)
(* them up by image.                                                       *)
(***************************************************************************)
\* a sale and a revitalization of each user on the first product, and a sale
\* whose product update fails
LedgerInputs ==
    ({1} \X Users \X {SomeBody, [description |-> "d1", action |-> "revitalized",
                                 price |-> <<>>]} \X {"ok"})
        \cup {<<1, "u2", SomeBody, "update">>}

DoRecord ==
    \E in \in LedgerInputs :
        /\ Len(transactions) < MaxTx
        /\ AddTransactionToItem(in[1], in[2], in[3], in[4])

DoSubmit == RatingControllerCreate("u1", [product_id |-> 1, score |-> 4], "ok")

DoReadOne == GetOne(1, "ok", NoFail)

DoReadRandom == GetRandomProductsHandler(SomeSample, "ok", NoFail)

DoReadCollaborative ==
    GetCollaborative("u1", Answer("ok", <<2, 1>>), SomeSample, "ok", NoFail)

DoReadContentBased ==
    GetContentBased("7.jpg", Answer("ok", <<1, 2>>), SomeSample, "ok", NoFail)

LedgerNext ==
    \/ DoCreate
    \/ DoRecord
    \/ DoSubmit
    \/ DoReadOne
    \/ DoReadRandom
    \/ DoReadCollaborative
    \/ DoReadContentBased

SpecLedger == Init /\ [][LedgerNext]_vars

(***************************************************************************)
(* Properties of the assembled product: the score of the one who asks.     *)
(***************************************************************************)
\* C21: the Rating of the product GetOne answers with is the score the
\* requesting user has stored for that product, and 0 when the requesting
\* user has stored none, whoever owns the product.
C21_OwnScoreIsTheRequesters ==
    (GetOneServed /\ resp.code = 200)
        => resp.products[1].Rating = FindByUserAndProduct(req.user, req.item).Score

(***************************************************************************)
(* Properties of the lists of assembled products.                          *)
(***************************************************************************)
\* the products the list handler had to assemble
Candidates ==
    IF req.op = "GetRandomProducts"
    THEN req.body.sample
    ELSE GetRatedItemsByUserID(req.user)

\* C22: when the assembly of some of the candidate products of a list
\* endpoint fails, exactly those products are left out and the answer is
\* still a 200 with the remaining assembled products; no failed or
\* zero-valued entry is in the list.
C22_FailedAssemblyIsLeftOut ==
    (/\ req.op \in {"GetRandomProducts", "GetRatedProductsByUserID"}
     /\ req.body.db = "ok"
     /\ req.body.fail.read \in AssemblyReads)
        => /\ resp.code = 200
           /\ IDsOf(resp.products)
                = SelectSeq(Candidates, LAMBDA i : i # req.body.fail.product)

(***************************************************************************)
(* Properties of requests in flight together.                              *)
(***************************************************************************)
\* C24: when two rating submissions for one (user, product) pair that has no
\* row run interleaved, both looking for the existing row before either
\* writes, the table still ends with at most one row for the pair: in every
\* reachable state no pair has two rows.
C24_InterleavedRatingsKeepOneRow ==
    \A u \in Users, i \in 1..Len(products) : Cardinality(RowsOf(u, i)) <= 1

\* C25: when two AddTransactionToItem calls on one product run together,
\* each reading the product, appending its transaction and writing the whole
\* row, every appended transaction is in the ledger where it was put, and the
\* owner, the price and the status of the stored product all come from the
\* call that wrote last; they are never a mix of two calls.
C25_LastWriterWinsWhole ==
    /\ \A i \in 1..Len(transactions) : transactions[i].ID = i
    /\ \A p \in InFlight("appended") : transactions[calls[p].t.ID] = calls[p].t
    /\ (req.op = "AddTransactionToItem" /\ resp.code = 201)
          => /\ transactions[resp.transaction.ID] = resp.transaction
             /\ resp.transaction.UserID = req.user
             /\ resp.transaction.Action = req.body.action
             /\ products[req.item].UserID = req.user
             /\ products[req.item].Price = BindPrice(req.body)
             /\ products[req.item].Status
                    = StatusForAction(req.body.action, req.body.action)

\* two calls of different users with different actions have both finished;
\* the one that wrote last had appended first
C25_Witness ==
    /\ InFlight("idle") = Procs
    /\ req.op = "AddTransactionToItem"
    /\ resp.code = 201
    /\ Len(transactions) = 3
    /\ resp.transaction.ID = 2
    /\ transactions[3].ItemID = req.item
    /\ transactions[3].UserID # req.user
    /\ transactions[3].Action # req.body.action
    /\ products[req.item].UserID = req.user

\* the step in which the call of p gets the error of productService.Update
UpdateFails(p) ==
    /\ calls[p].pc = "appended"
    /\ calls[p].db = "update"
    /\ calls'[p].pc = "idle"

\* C26: when AddTransactionToItem has persisted the transaction and the
\* update of the product then fails, or has not run, the transaction is in
\* the ledger and stays there, the request is answered with a failure and
\* the stored product keeps the owner, the price and the status it had.
C26_FailedUpdateKeepsTransaction ==
    [][\A p \in Procs :
          /\ calls[p].pc = "appended"
                => /\ transactions[calls[p].t.ID] = calls[p].t
                   /\ transactions'[calls[p].t.ID] = calls[p].t
          /\ (calls[p].pc = "read" /\ calls'[p].pc = "appended")
                => /\ transactions' = Append(transactions, calls'[p].t)
                   /\ products' = products
          /\ UpdateFails(p)
                => /\ resp'.op = "AddTransactionToItem"
                   /\ resp'.code >= 400
                   /\ req'.item = calls[p].item
                   /\ transactions' = transactions
                   /\ products' = products]_vars

\* the call whose update failed ran alone: the product is as the call read
\* it, owned by its creator, while the ledger has the sale by another user
C26_Witness ==
    /\ InFlight("idle") = Procs
    /\ req.op = "AddTransactionToItem"
    /\ resp.code = 500
    /\ Len(transactions) = 2
    /\ transactions[2].ItemID = req.item
    /\ transactions[2].UserID = req.user
    /\ transactions[2].Action = "sold"
    /\ products[req.item].UserID # req.user
    /\ products[req.item].Status = StatusAvailable

(***************************************************************************)
(* Properties of the stored products and of the ledger.                    *)
(***************************************************************************)
\* C23: a product is created with status "available", and in every reachable
\* state, after any creations and AddTransactionToItem calls with any
\* actions, the status of each stored product is one of available, restored,
\* restoredAvailable, sold.
C23_StatusIsOneOfTheFour ==
    /\ \A i \in 1..Len(products) : products[i].Status \in ProductStatus
    /\ (req.op = "Create" /\ Len(products) > 0
          /\ \A j \in 1..Len(transactions) : transactions[j].ItemID # Len(products))
          => products[Len(products)].Status = StatusAvailable
    /\ (req.op = "Create" /\ resp.code = 201)
          => products[resp.transaction.ItemID].Status = StatusAvailable

\* a second product has just been created while the first one, which went
\* through a transaction of an action the handler does not know, is sold
C23_Witness ==
    /\ req.op = "Create"
    /\ resp.code = 201
    /\ Len(products) = 2
    /\ products[2].Status = StatusAvailable
    /\ products[1].Status = StatusSold
    /\ \E j \in 1..Len(transactions) :
          transactions[j].ItemID = 1 /\ transactions[j].Action = "donated"

\* the ledger of a product, oldest first
LedgerOf(i) == SelectSeq(transactions, LAMBDA t : t.ItemID = i)

\* the same request has been served, with success, in the state before the
\* step and in the step
Retried ==
    /\ AddSucceeded
    /\ req' = req
    /\ resp'.code = 201
    /\ transactions' # transactions

\* C27: serving AddTransactionToItem again with the same product, user,
\* action, description and price leaves the product with the owner, price
\* and status of the single execution, and each execution appends a
\* transaction under a fresh identifier: no identifier is twice in the
\* ledger.
C27_RetryKeepsProduct ==
    /\ [](\A i, j \in 1..Len(transactions) :
             transactions[i].ID = transactions[j].ID => i = j)
    /\ [][Retried
            => /\ products' = products
               /\ Len(transactions') = Len(transactions) + 1
               /\ SubSeq(transactions', 1, Len(transactions)) = transactions
               /\ resp'.transaction = transactions'[Len(transactions')]
               /\ resp'.transaction.ID # resp.transaction.ID
               /\ [resp'.transaction EXCEPT !.ID = 0]
                    = [resp.transaction EXCEPT !.ID = 0]]_vars

\* a sale at 50 has been served twice in a row on a product created at 10
C27_Witness ==
    /\ AddSucceeded
    /\ Len(transactions) = 3
    /\ transactions[2].ID # transactions[3].ID
    /\ [transactions[2] EXCEPT !.ID = 0] = [transactions[3] EXCEPT !.ID = 0]
    /\ transactions[1].Action = "submitted"
    /\ Recorded.Price = 50
    /\ Recorded.UserID = req.user

\* the status the handler writes for the request on a product that has no
\* status at all
StatusWrittenFor(body) ==
    UpdatedProduct(NoProduct, TransactionRequest(BadUUID, NoUser, body), body).Status

\* C29: the status AddTransactionToItem writes depends on the recorded
\* action alone: whatever status the product was in, "sold" included, it
\* ends in the status the action gives, so that two products in different
\* statuses that receive the same action end in the same status and a sold
\* product is moved on by a later transaction.
C29_StatusDependsOnActionAlone ==
    /\ AddSucceeded => Recorded.Status = StatusWrittenFor(req.body)
    /\ \A b1, b2 \in AddBodies :
          b1.action = b2.action => StatusWrittenFor(b1) = StatusWrittenFor(b2)

\* product 1 was sold, product 2 was as created; both were then revitalized
\* and both are restored
C29_Witness ==
    /\ AddSucceeded
    /\ Len(products) = 2
    /\ Len(LedgerOf(1)) = 2
    /\ LedgerOf(1)[1].Action = "sold"
    /\ LedgerOf(1)[2].Action = "revitalized"
    /\ Len(LedgerOf(2)) = 1
    /\ LedgerOf(2)[1].Action = "revitalized"
    /\ products[1].Status = StatusRestored
    /\ products[2].Status = StatusRestored

\* C30: with the requests served one at a time and every
\* AddTransactionToItem either completed or failed before its insert, each
\* product that has a ledger entry is owned by the user of its newest
\* ledger entry; a product just created by POST /products, whose creation
\* appended a "submitted" transaction of the creator, is one of them.
C30_OwnerIsNewestActor ==
    /\ \A i \in 1..Len(products) :
          LedgerOf(i) # <<>>
              => products[i].UserID = LedgerOf(i)[Len(LedgerOf(i))].UserID
    /\ (req.op = "Create" /\ resp.code = 201)
          => /\ LedgerOf(resp.transaction.ItemID) = <<resp.transaction>>
             /\ resp.transaction.Action = "submitted"
             /\ resp.transaction.UserID = req.user
             /\ products[resp.transaction.ItemID].UserID = req.user

\* the second product has just been created by one user while the first
\* one, created by the same user, was bought by the other
C30_Witness ==
    /\ req.op = "Create"
    /\ resp.code = 201
    /\ Len(products) = 2
    /\ Len(LedgerOf(1)) = 2
    /\ LedgerOf(1)[1].UserID = req.user
    /\ products[1].UserID # req.user
    /\ products[2].UserID = req.user

\* the handlers that read the store and write nothing
ReadOps == {"GetOne", "GetRandomProducts", "GetCollaborative", "GetContentBased"}

\* the ledger of the product a request was about, in the state after the step
LedgerAfter == SelectSeq(transactions', LAMBDA t : t.ItemID = req'.item)

\* the transactions GetOne answered with are the stored ones, newest first,
\* but for the image reference, which is the pre-signed URL of the stored key
ReturnedCopies ==
    LET returned == resp'.products[1].Transactions
        stored == Reverse(LedgerAfter)
    IN  /\ Len(returned) = Len(stored)
        /\ \A k \in 1..Len(stored) :
              /\ returned[k].ID = stored[k].ID
              /\ returned[k].ImageURL
                    = IF stored[k].ImageURL # 0
                      THEN PreSignedURL(stored[k].ImageURL)
                      ELSE 0

\* C28: the transaction table is append-only: over any sequence of product
\* creations, AddTransactionToItem calls, rating submissions, product reads
\* and recommendation reads, a stored transaction is never changed or
\* removed; each successful AddTransactionToItem grows the ledger of its
\* product by exactly one entry; and a read, which puts pre-signed URLs in
\* the copies it returns, changes nothing in the store.
C28_LedgerIsAppendOnly ==
    [][/\ Len(transactions') >= Len(transactions)
       /\ SubSeq(transactions', 1, Len(transactions)) = transactions
       /\ (req'.op = "AddTransactionToItem" /\ resp'.code = 201)
             => /\ Len(transactions') = Len(transactions) + 1
                /\ Len(LedgerAfter) = Len(LedgerOf(req'.item)) + 1
       /\ req'.op \in ReadOps \cup {"RatingCreate"}
             => transactions' = transactions
       /\ (req'.op = "GetOne" /\ resp'.code = 200) => ReturnedCopies]_vars

\* the first product, created with an image and sold since, has been rated
\* and has just been read: the answer carries the pre-signed URL, the stored
\* row still the key
C28_Witness ==
    /\ req.op = "GetOne"
    /\ resp.code = 200
    /\ ratings # <<>>
    /\ Len(LedgerOf(1)) = 2
    /\ LedgerOf(1)[1].ImageURL # 0
    /\ resp.products[1].Transactions[2].ImageURL = PreSignedURL(LedgerOf(1)[1].ImageURL)
    /\ resp.products[1].Transactions[2].ImageURL # LedgerOf(1)[1].ImageURL

====
